---- MODULE Spec2Model ----
(***************************************************************************)
(* A model of dctap/csvreader.py: the row loader (_get_rows), the header   *)
(* normalizer (_normalize_element_name) and the shape grouper              *)
(* (_get_tapshapes).                                                       *)
(*                                                                         *)
(* Python values are modelled as follows.  A dict is a function whose      *)
(* DOMAIN is its key set; the dict `shapes`, whose insertion order the     *)
(* code reads (list(shapes)[-1], shapes.values()), is a sequence of        *)
(* entries [key, obj].  None is the string NoneVal.  A TAPShape object     *)
(* carries an object identity `oid` (the index of the row whose            *)
(* processing constructed it), which asdict() does not show.  Strings the  *)
(* code takes apart (headers) are sequences of one-character strings.      *)
(***************************************************************************)
EXTENDS Integers, Sequences, FiniteSets, TLC

(***************************************************************************)
(* Bounds of the model.                                                    *)
(***************************************************************************)
MaxRows == 4

\* Rows of a run whose configuration has no default shape name.
MaxRowsNoDefault == 2

\* Rows of a run whose configuration varies the extra-element lists.
MaxRowsExtras == 2

(***************************************************************************)
(* Values.                                                                 *)
(***************************************************************************)
NoneVal == "<None>"

EmptyDict == <<>>

PropertyIDs == {"dc:title", "dc:date", "dc:creator"}

ShapeIDs == {":a", ":b2"}

\* Python truthiness of a str-or-None value.
Truthy(v) == v # NoneVal /\ v # ""

\* dict.get(key): the value, or None when the key is absent.
DictGet(d, k) == IF k \in DOMAIN d THEN d[k] ELSE NoneVal

\* d[k] = v on a plain dict.
SetItem(d, k, v) == (k :> v) @@ d

(***************************************************************************)
(* The rows handed to _get_tapshapes: dicts with a propertyID column and,  *)
(* optionally, a shapeID column (unit tests pass rows without one).  Every *)
(* propertyID comes without a shapeID; two come with :a, one with :b2.  An *)
(* empty shapeID is as good as none for the key; one row has it.  Rows     *)
(* without a propertyID value are never grouped; two of them, one with a   *)
(* shapeID of its own, are enough to see that they leave no trace.         *)
(***************************************************************************)
ValidRows ==
    { [propertyID |-> p] : p \in PropertyIDs }
    \cup { [propertyID |-> p, shapeID |-> ":a"] : p \in {"dc:title", "dc:creator"} }
    \cup { [propertyID |-> "dc:date", shapeID |-> ":b2"],
           [propertyID |-> "dc:title", shapeID |-> ""] }

EmptyRows ==
    { [propertyID |-> ""], [propertyID |-> "", shapeID |-> ":b2"] }

RowSet == ValidRows \cup EmptyRows

\* Configurations of the grouping runs: both extra-element lists are present,
\* the default shape name is configured or absent.
Configs ==
    { [default_shape_name |-> "default",
       extra_shape_elements |-> <<>>,
       extra_statement_constraint_elements |-> <<>>],
      [extra_shape_elements |-> <<>>,
       extra_statement_constraint_elements |-> <<>>] }

(***************************************************************************)
(* dctap.tapclasses (not part of the sources at hand): the two dataclasses *)
(* and their hooks.                                                        *)
(***************************************************************************)
\* Element name under which the hooks of both classes report.
WarnElem == "elem"

FlaggedShapeIDs == {":b2"}

FlaggedPropertyIDs == {"dc:date"}

\* TAPShape(): a fresh object with default field values.
TAPShape(oid) ==
    [oid |-> oid, shapeID |-> "", shapeLabel |-> "", sc_list |-> <<>>, sh_warnings |-> EmptyDict]

\* The declared fields of TAPShape, as asdict() lists them.
TAPShapeFields == {"shapeID", "shapeLabel", "sc_list", "sh_warnings"}

\* The declared fields of TAPStatementConstraint, as asdict() lists them.
TAPStatementConstraintFields ==
    {"propertyID", "propertyLabel", "mandatory", "repeatable", "valueNodeType",
     "valueDataType", "valueConstraint", "valueConstraintType", "valueShape",
     "note", "sc_warnings"}

\* TAPStatementConstraint(): a fresh object with default field values.
TAPStatementConstraint ==
    [k \in TAPStatementConstraintFields |-> IF k = "sc_warnings" THEN EmptyDict ELSE ""]

\* TAPShape.set_settings + normalize: the shape records its own warnings.
ShapeNormalize(obj) ==
    [obj EXCEPT !.sh_warnings =
        IF obj.shapeID \in FlaggedShapeIDs
        THEN (WarnElem :> <<"shape", obj.shapeID>>)
        ELSE EmptyDict]

\* TAPShape.get_warnings.
ShapeGetWarnings(obj) == obj.sh_warnings

\* TAPStatementConstraint.set_settings + normalize.
ScNormalize(sc) ==
    [sc EXCEPT !["sc_warnings"] =
        IF sc["propertyID"] \in FlaggedPropertyIDs
        THEN (WarnElem :> <<"sc", sc["propertyID"]>>)
        ELSE EmptyDict]

\* TAPStatementConstraint.get_warnings.
ScGetWarnings(sc) == sc["sc_warnings"]

(***************************************************************************)
(* The ordered dict `shapes`.                                              *)
(***************************************************************************)
Keys(shapes) == { shapes[i].key : i \in 1..Len(shapes) }

\* list(shapes)
KeyList(shapes) == [i \in 1..Len(shapes) |-> shapes[i].key]

IndexOf(shapes, k) == CHOOSE i \in 1..Len(shapes) : shapes[i].key = k

\* shapes[k]
Lookup(shapes, k) == shapes[IndexOf(shapes, k)].obj

\* shapes[k] = obj: a new key goes last, an existing key keeps its place.
DictSet(shapes, k, obj) ==
    IF k \in Keys(shapes)
    THEN [shapes EXCEPT ![IndexOf(shapes, k)] = [key |-> k, obj |-> obj]]
    ELSE Append(shapes, [key |-> k, obj |-> obj])

\* The object with identity oid, wherever the dict holds it.
ReplaceObj(shapes, oid, obj) ==
    [i \in 1..Len(shapes) |->
        IF shapes[i].obj.oid = oid THEN [key |-> shapes[i].key, obj |-> obj] ELSE shapes[i]]

ObjOf(shapes, oid) == shapes[CHOOSE i \in 1..Len(shapes) : shapes[i].obj.oid = oid].obj

(***************************************************************************)
(* Strings as sequences of characters.                                     *)
(***************************************************************************)
UpperCase == <<"A","B","C","D","E","F","G","H","I","J","K","L","M",
               "N","O","P","Q","R","S","T","U","V","W","X","Y","Z">>

LowerCase == <<"a","b","c","d","e","f","g","h","i","j","k","l","m",
               "n","o","p","q","r","s","t","u","v","w","x","y","z">>

\* str.lower() on one character.
LowerChar(c) ==
    IF \E i \in 1..26 : UpperCase[i] = c
    THEN LowerCase[CHOOSE i \in 1..26 : UpperCase[i] = c]
    ELSE c

\* str.lower()
Lower(str) == [i \in 1..Len(str) |-> LowerChar(str[i])]

\* str.replace(ch, "")
Remove(str, ch) == LET Keep(c) == c # ch IN SelectSeq(str, Keep)

IsSpace(c) == c \in {" ", "\t", "\n", "\r"}

\* str.strip()
RECURSIVE Strip(_)
Strip(str) ==
    IF str = <<>> THEN str
    ELSE IF IsSpace(Head(str)) THEN Strip(Tail(str))
    ELSE IF IsSpace(str[Len(str)]) THEN Strip(SubSeq(str, 1, Len(str) - 1))
    ELSE str

\* str.split(sep) for a one-character separator.
RECURSIVE Split(_, _)
Split(str, sep) ==
    IF \A i \in 1..Len(str) : str[i] # sep
    THEN <<str>>
    ELSE LET at == CHOOSE i \in 1..Len(str) :
                      str[i] = sep /\ \A j \in 1..(i - 1) : str[j] # sep
         IN  <<SubSeq(str, 1, at - 1)>> \o Split(SubSeq(str, at + 1, Len(str)), sep)

\* sep.join(list)
RECURSIVE Join(_, _)
Join(list, sep) ==
    IF list = <<>> THEN <<>>
    ELSE IF Len(list) = 1 THEN list[1]
    ELSE list[1] \o <<sep>> \o Join(Tail(list), sep)

\* needle in hay
Contains(hay, needle) ==
    \E i \in 0..(Len(hay) - Len(needle)) : SubSeq(hay, i + 1, i + Len(needle)) = needle

Str_propertyID == <<"p","r","o","p","e","r","t","y","I","D">>

Str_propertyid == <<"p","r","o","p","e","r","t","y","i","d">>

Str_propertyIDs == <<"p","r","o","p","e","r","t","y","I","D","s">>

Str_Property_ID == <<"P","r","o","p","e","r","t","y","_","I","D">>

Str_shapeID == <<"s","h","a","p","e","I","D">>

Str_shape_id == <<"s","h","a","p","e","-","i","d">>

Str_prop == <<"p","r","o","p">>

(***************************************************************************)
(* The header normalizer, lines 150-166.                                   *)
(***************************************************************************)
\* _lowercase_despace_depunctuate, lines 150-156.
lowercase_despace_depunctuate(some_str) ==
    Lower(Remove(Remove(Remove(some_str, " "), "_"), "-"))

\* Lines 163-165: the loop over the alias table, an insertion-ordered dict
\* given as a sequence of <<key, value>>; the loop goes on after a match.
RECURSIVE AliasLoop(_, _)
AliasLoop(some_str, alias_items) ==
    IF alias_items = <<>>
    THEN some_str
    ELSE AliasLoop(IF Head(alias_items)[1] = some_str THEN Head(alias_items)[2] ELSE some_str,
                   Tail(alias_items))

\* _normalize_element_name, lines 159-166; a table that is None or empty is
\* falsy and skipped.
normalize_element_name(some_str, element_aliases_dict) ==
    IF element_aliases_dict # NoneVal /\ element_aliases_dict # <<>>
    THEN AliasLoop(lowercase_despace_depunctuate(some_str), element_aliases_dict)
    ELSE lowercase_despace_depunctuate(some_str)

(***************************************************************************)
(* _get_rows, lines 20-36.  The file is a sequence of lines, each without  *)
(* its line end.                                                           *)
(***************************************************************************)
\* Line 24.
StrippedLines(csvfile) == [i \in 1..Len(csvfile) |-> Strip(csvfile[i])]

\* Lines 25-30: the normalized header names of a file that has a first line.
NewHeaderLineList(csvfile, config_dict) ==
    LET raw_header_line_list == Split(StrippedLines(csvfile)[1], ",")
    IN  [i \in 1..Len(raw_header_line_list) |->
            normalize_element_name(lowercase_despace_depunctuate(raw_header_line_list[i]),
                                   DictGet(config_dict, "element_aliases"))]

\* Lines 31-32.
NewHeaderLineStr(csvfile, config_dict) == Join(NewHeaderLineList(csvfile, config_dict), ",")

\* Line 33: the test for the propertyID column, made on the joined header line.
HeaderCheckPasses(csvfile, config_dict) ==
    Contains(NewHeaderLineStr(csvfile, config_dict), Str_propertyID)

\* Lines 35-36: csv.DictReader over the rewritten lines, for unquoted cells
\* and data lines that have as many cells as the header; blank lines are
\* skipped, and of two columns of one name the later one is kept.
DictReader(lines) ==
    LET fieldnames == Split(lines[1], ",")
        data == SelectSeq(Tail(lines), LAMBDA line : line # <<>>)
        RowOf(line) ==
            LET cells == Split(line, ",")
            IN  [name \in { fieldnames[i] : i \in 1..Len(fieldnames) } |->
                    cells[CHOOSE i \in 1..Len(fieldnames) :
                            /\ fieldnames[i] = name
                            /\ \A j \in (i + 1)..Len(fieldnames) : fieldnames[j] # name]]
    IN  [i \in 1..Len(data) |-> RowOf(data[i])]

\* Lines 22-36 for a file with a first line that passes the check.
GetRowsList(csvfile, config_dict) ==
    DictReader(<<NewHeaderLineStr(csvfile, config_dict)>> \o Tail(StrippedLines(csvfile)))

(***************************************************************************)
(* _get_tapshapes                                                          *)
(***************************************************************************)
\* dshape, lines 45-48: dict.get never raises KeyError, so the except branch
\* is dead and an absent entry yields None.
Dshape(config_dict) == DictGet(config_dict, "default_shape_name")

\* set_shape_fields, lines 60-70.
set_shape_fields(shape, row) ==
    LET tapshape_keys == TAPShapeFields \ {"sc_list", "sh_warnings"}
    IN  [shape EXCEPT
            !.shapeID = IF "shapeID" \in tapshape_keys /\ "shapeID" \in DOMAIN row
                        THEN row["shapeID"] ELSE @,
            !.shapeLabel = IF "shapeLabel" \in tapshape_keys /\ "shapeLabel" \in DOMAIN row
                           THEN row["shapeLabel"] ELSE @]

\* Lines 108-114: a statement constraint populated from the row.
PopulateSc(row) ==
    [k \in DOMAIN TAPStatementConstraint |->
        IF k \in DOMAIN row THEN row[k] ELSE TAPStatementConstraint[k]]

\* A merge that puts the new message first.
MergeWarnings_Prepend(warnings, sh_id, emitted) ==
    IF DOMAIN emitted = {}
    THEN warnings
    ELSE LET bucket == IF sh_id \in DOMAIN warnings THEN warnings[sh_id] ELSE EmptyDict
             merged == [e \in DOMAIN bucket \cup DOMAIN emitted |->
                          IF e \in DOMAIN emitted
                          THEN IF e \in DOMAIN bucket
                               THEN <<emitted[e]>> \o bucket[e]
                               ELSE <<emitted[e]>>
                          ELSE bucket[e]]
         IN  SetItem(warnings, sh_id, merged)

\* Lines 101-106 and 124-129: merge freshly emitted warnings under sh_id.
\* `warnings` is a defaultdict(dict): warnings[sh_id] springs into being on
\* first access, which happens only when there is something to merge.
MergeWarnings(warnings, sh_id, emitted) ==
    IF DOMAIN emitted = {}
    THEN warnings
    ELSE LET bucket == IF sh_id \in DOMAIN warnings THEN warnings[sh_id] ELSE EmptyDict
             merged == [e \in DOMAIN bucket \cup DOMAIN emitted |->
                          IF e \in DOMAIN emitted
                          THEN IF e \in DOMAIN bucket
                               THEN Append(bucket[e], emitted[e])
                               ELSE <<emitted[e]>>
                          ELSE bucket[e]]
         IN  SetItem(warnings, sh_id, merged)

\* asdict(tapshape_obj) with sc_list renamed, lines 135-138.
ShapeAsDict(obj) ==
    [shapeID |-> obj.shapeID, shapeLabel |-> obj.shapeLabel,
     sh_warnings |-> obj.sh_warnings, statement_constraints |-> obj.sc_list]

\* A shape list put out newest first.
AssembleShapes_Reversed(shapes) ==
    [shapes |-> [i \in 1..Len(shapes) |-> ShapeAsDict(shapes[Len(shapes) + 1 - i].obj)]]

\* Lines 131-139.
AssembleShapes(shapes) ==
    [shapes |-> [i \in 1..Len(shapes) |-> ShapeAsDict(shapes[i].obj)]]

\* Lines 76-80: the key of the first valid row.
FirstKey(row, dshape) ==
    IF Truthy(DictGet(row, "shapeID")) THEN DictGet(row, "shapeID") ELSE dshape

\* A first row that is left as it came.
WriteBack_Skipped(row, dshape) == row

\* A write-back that also overwrites a shapeID the row came with.
WriteBack_Always(row, dshape) == SetItem(row, "shapeID", dshape)

\* A write-back of something other than the key in use.
WriteBack_OtherKey(row, dshape) ==
    IF Truthy(DictGet(row, "shapeID")) THEN row ELSE SetItem(row, "shapeID", ":a")

\* Line 80: row["shapeID"] = dshape, the write-back into the first valid row.
WriteBack(row, dshape) ==
    IF Truthy(DictGet(row, "shapeID")) THEN row ELSE SetItem(row, "shapeID", dshape)

\* The oldest key of the dict instead of the most recent one.
LastKey_Oldest(shapes) == KeyList(shapes)[1]

\* Lines 89-90: the most recent key of the dict.
LastKey(shapes) == KeyList(shapes)[Len(shapes)]

\* A carry-forward that overrides the row's own shapeID.
NextKey_AlwaysCarry(row, shapes) == LastKey(shapes)

\* Lines 85-90: the key of a valid row once a first valid row has been seen.
NextKey(row, shapes) ==
    IF Truthy(DictGet(row, "shapeID")) THEN row["shapeID"] ELSE LastKey(shapes)

\* A statement constraint inserted at the head of the list.
AppendSc_AtHead(shapes, sh_id, sc) ==
    LET owner == Lookup(shapes, sh_id)
    IN  DictSet(shapes, sh_id, [owner EXCEPT !.sc_list = <<sc>> \o owner.sc_list])

\* Line 116: shapes[sh_id].sc_list.append(sc).
AppendSc(shapes, sh_id, sc) ==
    LET owner == Lookup(shapes, sh_id)
    IN  DictSet(shapes, sh_id, [owner EXCEPT !.sc_list = Append(owner.sc_list, sc)])

\* Lines 97-99: the object whose hooks run is the one the local `shape` names.
HookedShape(st) == st.shape

\* Lines 97-129: the hooks, the merges and the append, in program order.
\* st carries the locals after line 95; row is the row after any write-back.
HooksAndAppend(st, row) ==
    LET hooked == ShapeNormalize(ObjOf(st.shapes, HookedShape(st)))
        shapes1 == ReplaceObj(st.shapes, hooked.oid, hooked)
        warnings1 == MergeWarnings(st.warnings, st.sh_id, ShapeGetWarnings(hooked))
        sc == ScNormalize(PopulateSc(row))
        shapes2 == AppendSc(shapes1, st.sh_id, sc)
        warnings2 == MergeWarnings(warnings1, st.sh_id, ScGetWarnings(sc))
    IN  [st EXCEPT !.shapes = shapes2, !.warnings = warnings2]

\* A test that takes every key for a new one.
NeedsNewShape_Always(st) == TRUE

\* Line 92: sh_id not in shapes.
NeedsNewShape(st) == st.sh_id \notin Keys(st.shapes)

\* Lines 76-141: the loop body for a row with a propertyID.  idx is the
\* position of the row in the list; the result holds the locals after the
\* iteration and the row as the iteration leaves it.
LoopBody(st, row, idx, config_dict) ==
    LET dshape == Dshape(config_dict)
        first == st.first_valid_row_encountered
        \* lines 76-83
        row1 == IF first THEN WriteBack(row, dshape) ELSE row
        st1 == IF first
               THEN [st EXCEPT
                       !.sh_id = FirstKey(row, dshape),
                       !.shape = idx,
                       !.shapes = DictSet(st.shapes, FirstKey(row, dshape),
                                          set_shape_fields(TAPShape(idx), row1)),
                       !.first_valid_row_encountered = FALSE]
               ELSE st
        \* lines 85-90
        st2 == IF ~st1.first_valid_row_encountered
               THEN [st1 EXCEPT !.sh_id = NextKey(row1, st1.shapes)]
               ELSE st1
        \* lines 92-95
        st3 == IF NeedsNewShape(st2)
               THEN [st2 EXCEPT
                       !.shape = idx,
                       !.shapes = DictSet(st2.shapes, st2.sh_id,
                                          set_shape_fields(TAPShape(idx), row1)),
                       !.warnings = SetItem(st2.warnings, st2.sh_id, EmptyDict)]
               ELSE st2
        \* lines 97-129
        st4 == HooksAndAppend(st3, row1)
        \* lines 131-141
        st5 == [st4 EXCEPT !.tapshapes_dict = AssembleShapes(st4.shapes),
                           !.warnings_dict = st4.warnings]
    IN  [st |-> st5, row |-> row1]

\* The locals of _get_tapshapes before the loop, lines 56-58; sh_id, shape,
\* tapshapes_dict and warnings_dict are not bound yet.
UnboundName == "<unbound>"

UnboundLocal == [unbound |-> TRUE]

InitLocals ==
    [shapes |-> <<>>, first_valid_row_encountered |-> TRUE, warnings |-> EmptyDict,
     sh_id |-> UnboundName, shape |-> 0,
     tapshapes_dict |-> UnboundLocal, warnings_dict |-> UnboundLocal]

\* A loop without the `continue` of line 74.
RowStep_NoContinue(st, row, idx, config_dict) == LoopBody(st, row, idx, config_dict)

\* Lines 72-141 for one row of any kind.
RowStep(st, row, idx, config_dict) ==
    IF ~Truthy(row["propertyID"])
    THEN [st |-> st, row |-> row]
    ELSE LoopBody(st, row, idx, config_dict)

\* Lines 72-146 as a function of the row list: the returned pair, or the
\* exception raised by the return statement when no name was bound.
RECURSIVE RunLoop(_, _, _, _)
RunLoop(st, rowlist, idx, config_dict) ==
    IF idx > Len(rowlist)
    THEN st
    ELSE RunLoop(RowStep(st, rowlist[idx], idx, config_dict).st, rowlist, idx + 1, config_dict)

ReturnValue(st) ==
    IF st.tapshapes_dict = UnboundLocal
    THEN <<"UnboundLocalError">>
    ELSE <<st.tapshapes_dict, st.warnings_dict>>

\* Lines 50-53: config_dict["extra_shape_elements"] and
\* config_dict["extra_statement_constraint_elements"] are subscripted, which
\* raises KeyError for an absent key; the values are read into names that
\* nothing uses.
ExtrasPresent(config_dict) ==
    /\ "extra_shape_elements" \in DOMAIN config_dict
    /\ "extra_statement_constraint_elements" \in DOMAIN config_dict

\* _get_tapshapes, lines 39-146, as a function of its arguments.
GetTapshapes(rowlist, config_dict) ==
    IF ~ExtrasPresent(config_dict)
    THEN <<"KeyError">>
    ELSE ReturnValue(RunLoop(InitLocals, rowlist, 1, config_dict))

\* The rows as a call of _get_tapshapes leaves them (line 80 is its only
\* assignment to a row).
RowsAfterRun(rowlist, config_dict) ==
    [i \in 1..Len(rowlist) |->
        RowStep(RunLoop(InitLocals, SubSeq(rowlist, 1, i - 1), 1, config_dict),
                rowlist[i], i, config_dict).row]

(***************************************************************************)
(* The state machine: one run of _get_tapshapes over a list of rows that   *)
(* is revealed row by row.                                                 *)
(***************************************************************************)
VARIABLES
    config_dict,    \* the configuration of the run
    csvfile,        \* the lines of the file read by _get_rows
    input,          \* the rows as the caller passed them, up to the current one
    rows,           \* the same rows as the loop leaves them
    locals,         \* the locals of _get_tapshapes
    log,            \* per row: whether it was grouped, its key, the hooked object
    pc,             \* "loop", "returned" or "raised"
    result          \* the returned pair, or the exception

vars == <<config_dict, csvfile, input, rows, locals, log, pc, result>>

Init ==
    /\ config_dict \in Configs
    /\ csvfile = <<>>
    /\ input = <<>>
    /\ rows = <<>>
    /\ locals = InitLocals
    /\ log = <<>>
    /\ pc = "loop"
    /\ result = <<>>

\* The number of rows the model follows a run for.
RowBound ==
    IF config_dict \notin Configs THEN MaxRowsExtras
    ELSE IF "default_shape_name" \in DOMAIN config_dict THEN MaxRows
    ELSE MaxRowsNoDefault

\* Lines 73-74: a row without a propertyID is passed over.
SkipRow(row) ==
    /\ pc = "loop"
    /\ Len(rows) < RowBound
    /\ ~Truthy(row["propertyID"])
    /\ input' = Append(input, row)
    /\ rows' = Append(rows, RowStep(locals, row, Len(rows) + 1, config_dict).row)
    /\ locals' = RowStep(locals, row, Len(rows) + 1, config_dict).st
    /\ log' = Append(log, [valid |-> FALSE, sh_id |-> UnboundName, hooked |-> 0])
    /\ UNCHANGED <<config_dict, csvfile, pc, result>>

\* Lines 76-141: a row with a propertyID is grouped.
GroupRow(row) ==
    /\ pc = "loop"
    /\ Len(rows) < RowBound
    /\ Truthy(row["propertyID"])
    /\ LET step == RowStep(locals, row, Len(rows) + 1, config_dict)
       IN  /\ rows' = Append(rows, step.row)
           /\ locals' = step.st
           /\ log' = Append(log, [valid |-> TRUE, sh_id |-> step.st.sh_id,
                                  hooked |-> step.st.shape])
    /\ input' = Append(input, row)
    /\ UNCHANGED <<config_dict, csvfile, pc, result>>

\* Lines 143-146 after at least one grouped row.
Return ==
    /\ pc = "loop"
    /\ locals.tapshapes_dict # UnboundLocal
    /\ pc' = "returned"
    /\ result' = ReturnValue(locals)
    /\ UNCHANGED <<config_dict, csvfile, input, rows, locals, log>>

\* Lines 143-146 when no row was grouped: tapshapes_dict is not bound.
ReturnRaises ==
    /\ pc = "loop"
    /\ locals.tapshapes_dict = UnboundLocal
    /\ pc' = "raised"
    /\ result' = ReturnValue(locals)
    /\ UNCHANGED <<config_dict, csvfile, input, rows, locals, log>>

Next ==
    \/ \E row \in RowSet : SkipRow(row)
    \/ \E row \in RowSet : GroupRow(row)
    \/ Return
    \/ ReturnRaises

Spec == Init /\ [][Next]_vars

TypeOK ==
    /\ pc \in {"loop", "returned", "raised", "get_rows", "rows_loaded",
              "populate", "shape_populated", "sc_populated",
              "normalize", "normalized", "start", "csvreader_returned"}
    /\ Len(log) = Len(rows) /\ Len(rows) <= Len(input) /\ Len(rows) <= MaxRows

(***************************************************************************)
(* csvreader, lines 12-17, on a row list already loaded: the run followed  *)
(* so far is the call of line 15; the call of line 16 goes over the same   *)
(* list, as the first call left it.                                        *)
(***************************************************************************)
\* Lines 16-17: the second call and the return of (shapes of the first
\* call, warnings of the second call).
SecondRun ==
    /\ pc = "returned"
    /\ pc' = "csvreader_returned"
    /\ locals' = RunLoop(InitLocals, rows, 1, config_dict)
    /\ rows' = RowsAfterRun(rows, config_dict)
    /\ result' = <<result[1], GetTapshapes(rows, config_dict)[2]>>
    /\ UNCHANGED <<config_dict, csvfile, input, log>>

NextCsvreader ==
    \/ \E row \in RowSet : SkipRow(row)
    \/ \E row \in RowSet : GroupRow(row)
    \/ Return
    \/ ReturnRaises
    \/ SecondRun

SpecCsvreader == Init /\ [][NextCsvreader]_vars

(***************************************************************************)
(* The state machine of a call of _get_tapshapes from its first line, under *)
(* configurations that have, or lack, each of the two extra-element lists. *)
(***************************************************************************)
ExtraLists == {<<>>, <<"extra">>}

ExtraConfigs ==
    LET base == [default_shape_name |-> "default"]
        WithShape == {base} \cup { ("extra_shape_elements" :> l) @@ base : l \in ExtraLists }
    IN  WithShape \cup { ("extra_statement_constraint_elements" :> l) @@ c :
                            l \in ExtraLists, c \in WithShape }

InitConfig ==
    /\ config_dict \in ExtraConfigs
    /\ csvfile = <<>>
    /\ input = <<>>
    /\ rows = <<>>
    /\ locals = InitLocals
    /\ log = <<>>
    /\ pc = "start"
    /\ result = <<>>

\* Lines 45-58 when both lists are in the configuration.
EnterLoop ==
    /\ pc = "start"
    /\ ExtrasPresent(config_dict)
    /\ pc' = "loop"
    /\ UNCHANGED <<config_dict, csvfile, input, rows, locals, log, result>>

\* Lines 50 and 52 when a list is not in the configuration.
RaiseKeyError ==
    /\ pc = "start"
    /\ ~ExtrasPresent(config_dict)
    /\ pc' = "raised"
    /\ result' = <<"KeyError">>
    /\ UNCHANGED <<config_dict, csvfile, input, rows, locals, log>>

NextConfig ==
    \/ EnterLoop
    \/ RaiseKeyError
    \/ \E row \in RowSet : SkipRow(row)
    \/ \E row \in RowSet : GroupRow(row)
    \/ Return
    \/ ReturnRaises

SpecConfig == InitConfig /\ [][NextConfig]_vars

(***************************************************************************)
(* The state machine of the row loader: one call of _get_rows on a file    *)
(* and a configuration with or without an alias table.                     *)
(***************************************************************************)
MaxHeaders == 2

RawHeaders == {Str_propertyID, Str_Property_ID, Str_shapeID, Str_shape_id, Str_prop}

HeaderLists == UNION { [1..n -> RawHeaders] : n \in 1..MaxHeaders }

\* A data line with one cell per header.
DataLine(n) == Join([i \in 1..n |-> <<"v">>], ",")

\* The empty file, and files of a header line (as written, or indented) with
\* no data line, or with a blank line and a data line.
CsvFiles ==
    {<<>>}
    \cup { <<Join(h, ",")>> : h \in HeaderLists }
    \cup { <<<<" ">> \o Join(h, ","), <<>>, DataLine(Len(h)) \o <<" ">>>> : h \in HeaderLists }

AliasTables ==
    { <<>>,
      << <<Str_propertyid, Str_propertyID>> >>,
      << <<Str_prop, Str_propertyIDs>> >>,
      << <<Str_prop, Str_propertyid>>, <<Str_propertyid, Str_propertyID>> >>,
      << <<Str_propertyid, Str_propertyID>>, <<Str_prop, Str_propertyid>> >> }

LoaderConfigs ==
    { [extra_shape_elements |-> <<>>, extra_statement_constraint_elements |-> <<>>] }
    \cup { [element_aliases |-> t,
            extra_shape_elements |-> <<>>,
            extra_statement_constraint_elements |-> <<>>] : t \in AliasTables }

InitRows ==
    /\ config_dict \in LoaderConfigs
    /\ csvfile \in CsvFiles
    /\ input = <<>>
    /\ rows = <<>>
    /\ locals = InitLocals
    /\ log = <<>>
    /\ pc = "get_rows"
    /\ result = <<>>

\* Line 25 on a file without a first line: csvlines_stripped[0] fails.
GetRowsIndexError ==
    /\ pc = "get_rows"
    /\ csvfile = <<>>
    /\ pc' = "raised"
    /\ result' = <<"IndexError">>
    /\ UNCHANGED <<config_dict, csvfile, input, rows, locals, log>>

\* Lines 33-34: the header line fails the check.
GetRowsDctapError ==
    /\ pc = "get_rows"
    /\ csvfile # <<>>
    /\ ~HeaderCheckPasses(csvfile, config_dict)
    /\ pc' = "raised"
    /\ result' = <<"DctapError">>
    /\ UNCHANGED <<config_dict, csvfile, input, rows, locals, log>>

\* Lines 35-36: the rows are materialized and returned.
GetRowsReturn ==
    /\ pc = "get_rows"
    /\ csvfile # <<>>
    /\ HeaderCheckPasses(csvfile, config_dict)
    /\ pc' = "rows_loaded"
    /\ result' = GetRowsList(csvfile, config_dict)
    /\ UNCHANGED <<config_dict, csvfile, input, rows, locals, log>>

NextRows ==
    \/ GetRowsIndexError
    \/ GetRowsDctapError
    \/ GetRowsReturn

SpecRows == InitRows /\ [][NextRows]_vars

(***************************************************************************)
(* The state machine of the field populator: one record with any set of    *)
(* columns is copied into a fresh TAPShape (set_shape_fields) or into a    *)
(* fresh TAPStatementConstraint (lines 108-114).                           *)
(***************************************************************************)
\* Fields that are bookkeeping of the two classes, not columns of a profile.
BookkeepingFields == {"sc_list", "sh_warnings", "sc_warnings"}

\* The columns a record may have: declared fields of either class,
\* bookkeeping fields of either class, and a column neither declares.
RecordColumns ==
    {"shapeID", "shapeLabel", "propertyID", "note",
     "sc_list", "sh_warnings", "sc_warnings", "bogus"}

\* The cell of a column: a text other than any default.  The text is written
\* as a character sequence where the field's default is a container.
CellOf(col) == IF col \in BookkeepingFields THEN <<"x">> ELSE "x"

Records == { [col \in cols |-> CellOf(col)] : cols \in SUBSET RecordColumns }

InitPopulate ==
    /\ config_dict \in { c \in Configs : "default_shape_name" \in DOMAIN c }
    /\ csvfile = <<>>
    /\ input \in { <<r>> : r \in Records }
    /\ rows = <<>>
    /\ locals = InitLocals
    /\ log = <<>>
    /\ pc = "populate"
    /\ result = <<>>

\* Lines 81-82 and 93-94: shape = TAPShape(); set_shape_fields(shape, row).
PopulateShape ==
    /\ pc = "populate"
    /\ pc' = "shape_populated"
    /\ result' = <<set_shape_fields(TAPShape(1), input[1])>>
    /\ UNCHANGED <<config_dict, csvfile, input, rows, locals, log>>

\* Lines 108-114: sc = TAPStatementConstraint() and the copy loop.
PopulateStatementConstraint ==
    /\ pc = "populate"
    /\ pc' = "sc_populated"
    /\ result' = <<PopulateSc(input[1])>>
    /\ UNCHANGED <<config_dict, csvfile, input, rows, locals, log>>

NextPopulate ==
    \/ PopulateShape
    \/ PopulateStatementConstraint

SpecPopulate == InitPopulate /\ [][NextPopulate]_vars

(***************************************************************************)
(* The state machine of the header normalizer: one call of                 *)
(* _normalize_element_name on a header and the configured alias table.     *)
(***************************************************************************)
Str_PROP == <<"P","R","O","P">>

Str_p_ro_p == <<"p","_","r"," ","o","-","p">>

HeaderStrings ==
    RawHeaders \cup {Str_propertyid, Str_propertyIDs, Str_PROP, Str_p_ro_p, <<>>}

InitNormalize ==
    /\ config_dict \in LoaderConfigs
    /\ csvfile = <<>>
    /\ input \in { <<h>> : h \in HeaderStrings }
    /\ rows = <<>>
    /\ locals = InitLocals
    /\ log = <<>>
    /\ pc = "normalize"
    /\ result = <<>>

\* Lines 159-166.
NormalizeElementName ==
    /\ pc = "normalize"
    /\ pc' = "normalized"
    /\ result' = <<normalize_element_name(input[1], DictGet(config_dict, "element_aliases"))>>
    /\ UNCHANGED <<config_dict, csvfile, input, rows, locals, log>>

NextNormalize == NormalizeElementName

SpecNormalize == InitNormalize /\ [][NextNormalize]_vars

(***************************************************************************)
(* Vocabulary of the properties.                                           *)
(***************************************************************************)
IsValid(row) == Truthy(row["propertyID"])

HasExplicitKey(row) == Truthy(DictGet(row, "shapeID"))

HasValidRow == \E i \in 1..Len(input) : IsValid(input[i])

\* Position of the first row with a propertyID.
FirstValid ==
    CHOOSE i \in 1..Len(input) : IsValid(input[i]) /\ \A j \in 1..(i - 1) : ~IsValid(input[j])

\* The keys the rows were resolved to, row by row.
ResolvedKeys == [i \in 1..Len(log) |-> log[i].sh_id]

\* Positions, in row order, of the grouped rows resolved to key k.
RowsOf(k) ==
    LET Resolved(i) == log[i].valid /\ log[i].sh_id = k
    IN  SelectSeq([i \in 1..Len(log) |-> i], Resolved)

\* The propertyIDs of a list of statement constraints.
Pids(sc_list) == [j \in 1..Len(sc_list) |-> sc_list[j]["propertyID"]]

\* The key of the shape constructed last among those constructed before row i.
NewestKeyBefore(i) ==
    LET older == { e \in 1..Len(locals.shapes) : locals.shapes[e].obj.oid < i }
        newest == CHOOSE e \in older :
                    \A f \in older : locals.shapes[f].obj.oid <= locals.shapes[e].obj.oid
    IN  locals.shapes[newest].key

\* The shapes of the returned pair.
ReturnedShapes == result[1].shapes

ConfiguredDefault == DictGet(config_dict, "default_shape_name") = "default"

(***************************************************************************)
(* C1.  The end-to-end example of the specification.                       *)
(***************************************************************************)
ExampleRows ==
    << [propertyID |-> "dc:title"],
       [propertyID |-> "dc:date", shapeID |-> ":b2"],
       [propertyID |-> "dc:creator"] >>

ExampleRun == pc = "returned" /\ input = ExampleRows /\ ConfiguredDefault

\* C1 as stated: the example rows with default shape name "default" yield
\* exactly two shapes, `default` with [dc:title, dc:creator] and `:b2` with
\* [dc:date].
C1_ExampleAsStated ==
    ExampleRun =>
        /\ Len(ReturnedShapes) = 2
        /\ \E d, b \in 1..2 :
              /\ ReturnedShapes[d].shapeID = "default"
              /\ Pids(ReturnedShapes[d].statement_constraints) = <<"dc:title", "dc:creator">>
              /\ ReturnedShapes[b].shapeID = ":b2"
              /\ Pids(ReturnedShapes[b].statement_constraints) = <<"dc:date">>

\* C1 amended: the example rows with default shape name "default" yield
\* exactly two shapes, `default` with [dc:title] and `:b2` with
\* [dc:date, dc:creator]: the third row carries forward the key :b2.
C1_ExampleAmended ==
    ExampleRun =>
        /\ Len(ReturnedShapes) = 2
        /\ ReturnedShapes[1].shapeID = "default"
        /\ Pids(ReturnedShapes[1].statement_constraints) = <<"dc:title">>
        /\ ReturnedShapes[2].shapeID = ":b2"
        /\ Pids(ReturnedShapes[2].statement_constraints) = <<"dc:date", "dc:creator">>

C1_Witness == ExampleRun /\ Len(ReturnedShapes) = 2

(***************************************************************************)
(* C2.  Carry-forward.                                                     *)
(***************************************************************************)
\* The shapeID columns of R1(key A), R2(no key), R3(key B), R4(no key).
C2_IsExample ==
    /\ Len(input) = 4
    /\ \A i \in 1..4 : IsValid(input[i])
    /\ DictGet(input[1], "shapeID") = ":a"
    /\ ~HasExplicitKey(input[2])
    /\ DictGet(input[3], "shapeID") = ":b2"
    /\ ~HasExplicitKey(input[4])

\* C2: every grouped row after the first grouped row resolves to its own
\* shapeID when that is non-empty, and otherwise to the key of the shape
\* created most recently before it; R1(A), R2(), R3(B), R4() resolve to
\* A, A, B, B.
C2_CarryForward ==
    /\ \A i \in 1..Len(log) :
          (log[i].valid /\ i # FirstValid) =>
              log[i].sh_id = IF HasExplicitKey(input[i])
                             THEN input[i]["shapeID"]
                             ELSE NewestKeyBefore(i)
    /\ C2_IsExample => ResolvedKeys = <<":a", ":a", ":b2", ":b2">>

C2_Witness == C2_IsExample /\ ResolvedKeys[2] = ":a" /\ ResolvedKeys[4] = ":b2"

(***************************************************************************)
(* C3.  The reference model with an explicit carry-forward key.            *)
(***************************************************************************)
\* The keys a reference grouper resolves the rows to: `cur` is set by the
\* first row with a propertyID and changes only when such a row has a
\* non-empty shapeID of its own.
RECURSIVE RefKeys(_, _, _, _, _)
RefKeys(rowlist, idx, started, cur, dshape) ==
    IF idx > Len(rowlist)
    THEN <<>>
    ELSE LET row == rowlist[idx]
         IN  IF ~IsValid(row)
             THEN <<UnboundName>> \o RefKeys(rowlist, idx + 1, started, cur, dshape)
             ELSE LET key == IF HasExplicitKey(row) THEN row["shapeID"]
                             ELSE IF started THEN cur ELSE dshape
                  IN  <<key>> \o RefKeys(rowlist, idx + 1, TRUE, key, dshape)

\* C3: the rows are grouped as by the reference model that keeps an explicit
\* current carry-forward key, updated by every explicit shapeID, also one
\* that re-opens an earlier shape.
C3_MatchesReference ==
    ResolvedKeys = RefKeys(input, 1, FALSE, UnboundName, Dshape(config_dict))

(***************************************************************************)
(* C5.  Rows without a propertyID are excluded without a trace.            *)
(***************************************************************************)
GroupedOnly(rowlist) == SelectSeq(rowlist, IsValid)

\* C5: after any prefix, and at the end, the outcome of the run is the
\* outcome of the run on the same rows with the rows without a propertyID
\* removed, and such a row leaves its own columns as they were.
C5_SilentExclusion ==
    /\ ReturnValue(locals) = GetTapshapes(GroupedOnly(input), config_dict)
    /\ pc # "loop" => result = GetTapshapes(GroupedOnly(input), config_dict)
    /\ \A i \in 1..Len(input) : ~IsValid(input[i]) => rows[i] = input[i] /\ ~log[i].valid

C5_Witness ==
    /\ pc = "returned"
    /\ Len(input) = 3
    /\ IsValid(input[1]) /\ DictGet(input[1], "shapeID") = ":a"
    /\ input[2] = [propertyID |-> "", shapeID |-> ":b2"]
    /\ IsValid(input[3]) /\ ~HasExplicitKey(input[3])
    /\ Len(ReturnedShapes) = 1

(***************************************************************************)
(* C6.  The default shape.                                                 *)
(***************************************************************************)
C6_Case == ConfiguredDefault /\ HasValidRow /\ ~HasExplicitKey(input[FirstValid])

\* C6: with default shape name "default", a first grouped row without a
\* shapeID of its own is grouped under "default", holds "default" in its
\* shapeID column afterwards, and the shapes, as kept and as put out, hold
\* exactly one shape of that key whatever follows.
C6_DefaultShape ==
    C6_Case =>
        /\ log[FirstValid].sh_id = "default"
        /\ "shapeID" \in DOMAIN rows[FirstValid] /\ rows[FirstValid]["shapeID"] = "default"
        /\ Cardinality({ e \in 1..Len(locals.shapes) : locals.shapes[e].key = "default" }) = 1
        /\ Cardinality({ e \in 1..Len(locals.tapshapes_dict.shapes) :
                            locals.tapshapes_dict.shapes[e].shapeID = "default" }) = 1
        /\ pc = "returned" =>
              Cardinality({ e \in 1..Len(ReturnedShapes) :
                               ReturnedShapes[e].shapeID = "default" }) = 1

C6_Witness ==
    /\ C6_Case
    /\ pc = "returned"
    /\ Len(RowsOf("default")) >= 3
    /\ rows[FirstValid]["shapeID"] = "default"

(***************************************************************************)
(* C7.  No default shape name configured.                                  *)
(***************************************************************************)
C7_Case ==
    /\ "default_shape_name" \notin DOMAIN config_dict
    /\ HasValidRow
    /\ ~HasExplicitKey(input[FirstValid])

\* C7: without a configured default shape name, a first grouped row without
\* a shapeID of its own is keyed by the literal "default", which is also
\* what its shapeID column holds afterwards.
C7_LiteralFallback ==
    C7_Case =>
        /\ log[FirstValid].sh_id = "default"
        /\ locals.shapes[1].key = "default"
        /\ DictGet(rows[FirstValid], "shapeID") = "default"

(***************************************************************************)
(* C8.  Order preservation and exclusive ownership.                        *)
(***************************************************************************)
\* C8: after any prefix, the statement constraints of each shape are those
\* of the grouped rows resolved to its key, in row order; every grouped row
\* has its one statement constraint in one shape; no statement constraint
\* has an empty propertyID.
C8_OrderAndOwnership ==
    /\ \A e \in 1..Len(locals.shapes) :
          LET own == RowsOf(locals.shapes[e].key)
              sc_list == locals.shapes[e].obj.sc_list
          IN  /\ Len(sc_list) = Len(own)
              /\ \A j \in 1..Len(own) : sc_list[j] = ScNormalize(PopulateSc(rows[own[j]]))
              /\ \A j \in 1..Len(sc_list) : sc_list[j]["propertyID"] # ""
    /\ \A i \in 1..Len(log) :
          log[i].valid =>
              Cardinality({ e \in 1..Len(locals.shapes) : locals.shapes[e].key = log[i].sh_id }) = 1

\* A shape re-opened by its shapeID after another shape was created.
C8_Witness ==
    \E e \in 1..Len(locals.shapes) :
        /\ locals.shapes[e].key = ":a"
        /\ RowsOf(":a") = <<1, 3>>
        /\ log[2].valid /\ log[2].sh_id = ":b2"
        /\ Pids(locals.shapes[e].obj.sc_list) = <<"dc:title", "dc:creator">>

(***************************************************************************)
(* C9.  Warnings belong to the shape that emitted them.                    *)
(***************************************************************************)
\* C9: for every grouped row resolved to key K the shape hooks that ran are
\* those of the shape bound to K, and every shape-level message under
\* warnings[K] was emitted by that shape.
C9_OwnHooks ==
    /\ \A i \in 1..Len(log) :
          log[i].valid => log[i].hooked = Lookup(locals.shapes, log[i].sh_id).oid
    /\ \A k \in DOMAIN locals.warnings :
          \A el \in DOMAIN locals.warnings[k] :
              \A m \in 1..Len(locals.warnings[k][el]) :
                  LET msg == locals.warnings[k][el][m]
                  IN  msg[1] = "shape" => msg[2] = Lookup(locals.shapes, k).shapeID

(***************************************************************************)
(* C10.  Warning order.                                                    *)
(***************************************************************************)
\* What a hook result contributes to the list of element WarnElem.
Emitted(warn_dict) == IF WarnElem \in DOMAIN warn_dict THEN <<warn_dict[WarnElem]>> ELSE <<>>

\* The messages emitted for key k by the first n rows, in emission order:
\* row by row, the hooked shape's message before the statement constraint's.
RECURSIVE EmissionOrder(_, _)
EmissionOrder(k, n) ==
    IF n = 0
    THEN <<>>
    ELSE EmissionOrder(k, n - 1) \o
         IF log[n].valid /\ log[n].sh_id = k
         THEN Emitted(ShapeGetWarnings(ShapeNormalize(ObjOf(locals.shapes, log[n].hooked))))
              \o Emitted(ScGetWarnings(ScNormalize(PopulateSc(rows[n]))))
         ELSE <<>>

\* C10: after any prefix, the list at warnings[K][field] is the messages
\* emitted for K in emission order: within a row the shape's before the
\* statement constraint's, across rows in row order, nothing removed.
C10_WarningOrder ==
    /\ \A k \in DOMAIN locals.warnings : k \in Keys(locals.shapes)
    /\ \A k \in Keys(locals.shapes) :
          LET expected == EmissionOrder(k, Len(log))
          IN  IF expected = <<>>
              THEN k \in DOMAIN locals.warnings => WarnElem \notin DOMAIN locals.warnings[k]
              ELSE /\ k \in DOMAIN locals.warnings
                   /\ WarnElem \in DOMAIN locals.warnings[k]
                   /\ locals.warnings[k][WarnElem] = expected

\* [W1, W2] from one row, and a message of a later row after them.
C10_Witness ==
    /\ ":b2" \in DOMAIN locals.warnings
    /\ WarnElem \in DOMAIN locals.warnings[":b2"]
    /\ Len(locals.warnings[":b2"][WarnElem]) >= 3
    /\ locals.warnings[":b2"][WarnElem][1] = <<"shape", ":b2">>
    /\ locals.warnings[":b2"][WarnElem][2] = <<"sc", "dc:date">>
    /\ log[1].valid /\ log[1].sh_id = ":b2"

(***************************************************************************)
(* C4.  The propertyID column is mandatory.                                *)
(***************************************************************************)
\* The normalized header set has a column named exactly propertyID.
HasPropertyIDColumn ==
    /\ csvfile # <<>>
    /\ \E i \in 1..Len(NewHeaderLineList(csvfile, config_dict)) :
          NewHeaderLineList(csvfile, config_dict)[i] = Str_propertyID

\* C4: once _get_rows is over, it has raised DctapError (and materialized no
\* row) if the normalized header set has no column named exactly propertyID,
\* and it has passed the check and returned the rows if there is one.
C4_MandatoryColumn ==
    pc # "get_rows" =>
        IF HasPropertyIDColumn
        THEN pc = "rows_loaded"
        ELSE pc = "raised" /\ result = <<"DctapError">>

(***************************************************************************)
(* C11.  The field populator.                                              *)
(***************************************************************************)
\* What the populator is to leave in field f of an entity with the given
\* defaults: the record's cell for a declared field that is not bookkeeping
\* and is a column of the record, the default otherwise.
ExpectedField(defaults, f, record) ==
    IF f \notin BookkeepingFields /\ f \in DOMAIN record THEN record[f] ELSE defaults[f]

\* C11: a populated TAPShape or TAPStatementConstraint has, in every declared
\* field that is not bookkeeping, the record's value if the record has that
\* column and the default otherwise; bookkeeping fields keep their defaults
\* and no other column is taken, whatever columns the record has.
C11_FieldPopulator ==
    /\ pc = "shape_populated" =>
          /\ DOMAIN result[1] = TAPShapeFields \cup {"oid"}
          /\ \A f \in TAPShapeFields :
                result[1][f] = ExpectedField(TAPShape(1), f, input[1])
    /\ pc = "sc_populated" =>
          /\ DOMAIN result[1] = TAPStatementConstraintFields
          /\ \A f \in TAPStatementConstraintFields :
                result[1][f] = ExpectedField(TAPStatementConstraint, f, input[1])

(***************************************************************************)
(* C12.  Shape keys are unique and stable.                                 *)
(***************************************************************************)
KeysUnique(shapes) == Cardinality(Keys(shapes)) = Len(shapes)

\* Every binding of `before` is a binding of `after`: same key, same object.
BindingsKept(before, after) ==
    \A e \in 1..Len(before) :
        \E f \in 1..Len(after) :
            /\ after[f].key = before[e].key
            /\ after[f].obj.oid = before[e].obj.oid

\* C12: in every step of the grouping loop the shape collection keeps one
\* entry per key, and every key bound before the step is bound to the same
\* Shape object after it: no row rebinds or removes a key.
C12_KeysStable ==
    [][ /\ KeysUnique(locals.shapes) => KeysUnique(locals'.shapes)
        /\ BindingsKept(locals.shapes, locals'.shapes) ]_vars

\* Two shapes, the older one re-opened by a later row and still the object
\* that the first row constructed.
C12_Witness ==
    /\ Len(locals.shapes) = 2
    /\ Len(log) = 4
    /\ log[4].valid /\ log[4].sh_id = locals.shapes[1].key
    /\ HasExplicitKey(input[4])
    /\ locals.shapes[1].obj.oid = 1
    /\ locals.shapes[2].obj.oid = 2

(***************************************************************************)
(* C13.  The output assembler.                                             *)
(***************************************************************************)
\* The keys of the first n rows in the order in which they were first
\* resolved, each once.
RECURSIVE CreationOrder(_)
CreationOrder(n) ==
    IF n = 0
    THEN <<>>
    ELSE LET before == CreationOrder(n - 1)
         IN  IF log[n].valid /\ \A j \in 1..Len(before) : before[j] # log[n].sh_id
             THEN Append(before, log[n].sh_id)
             ELSE before

GroupedRowCount == Cardinality({ i \in 1..Len(log) : log[i].valid })

RECURSIVE SumOfLengths(_, _)
SumOfLengths(shape_list, n) ==
    IF n = 0 THEN 0
    ELSE SumOfLengths(shape_list, n - 1) + Len(shape_list[n].statement_constraints)

\* C13: the returned shapes are one entry per distinct key, in the order in
\* which the keys were first resolved, each with all statement constraints
\* of its rows under the name statement_constraints; the returned warnings
\* are the whole warning collection; every grouped row, the last one
\* included, is in the returned pair.
C13_OutputAssembler ==
    pc = "returned" =>
        LET order == CreationOrder(Len(log))
        IN  /\ Len(ReturnedShapes) = Len(order)
            /\ \A e \in 1..Len(order) :
                  LET own == RowsOf(order[e])
                      out == ReturnedShapes[e]
                  IN  /\ "sc_list" \notin DOMAIN out
                      /\ out.shapeID = Lookup(locals.shapes, order[e]).shapeID
                      /\ out.statement_constraints =
                            [j \in 1..Len(own) |-> ScNormalize(PopulateSc(rows[own[j]]))]
            /\ SumOfLengths(ReturnedShapes, Len(ReturnedShapes)) = GroupedRowCount
            /\ result[2] = locals.warnings

\* Three grouped rows, the last of which goes to the older of two shapes and
\* leaves a warning.
C13_Witness ==
    /\ pc = "returned"
    /\ Len(log) = 3
    /\ CreationOrder(3) = <<":a", ":b2">>
    /\ log[3].valid /\ log[3].sh_id = ":a"
    /\ Len(ReturnedShapes[1].statement_constraints) = 2
    /\ ":b2" \in DOMAIN result[2]

(***************************************************************************)
(* C14.  The header normalizer.                                            *)
(***************************************************************************)
\* The alias table of the configuration as a lookup: alias_items[c] when c
\* is a key of the table, c otherwise.
AliasOrSelf(c, alias_items) ==
    IF alias_items # NoneVal /\ \E i \in 1..Len(alias_items) : alias_items[i][1] = c
    THEN alias_items[CHOOSE i \in 1..Len(alias_items) : alias_items[i][1] = c][2]
    ELSE c

\* C14: the normalized name of a header is alias[c] when its canonical name c
\* (spaces, underscores, hyphens removed, lowercased) is a key of the alias
\* table and c otherwise: one substitution at most, whatever the order of
\* the table, and an alias that is itself a key is not followed.
C14_OneSubstitution ==
    pc = "normalized" =>
        result[1] = AliasOrSelf(Lower(Remove(Remove(Remove(input[1], " "), "_"), "-")),
                                DictGet(config_dict, "element_aliases"))

(***************************************************************************)
(* C15.  A warning bucket for every shape.                                 *)
(***************************************************************************)
\* C15: in the returned pair every shape key, the key of the first shape
\* included, is a key of the warnings mapping, whether or not anything was
\* emitted for it.
C15_BucketPerShape ==
    pc = "returned" => \A k \in Keys(locals.shapes) : k \in DOMAIN result[2]

(***************************************************************************)
(* C16.  A grouped row touches its own shape only.                         *)
(***************************************************************************)
\* The step groups a row.
RowGrouped == Len(log') = Len(log) + 1 /\ log'[Len(log')].valid

\* What a step that groups a row under key k leaves alone: the other
\* shapes, the shape-level fields of k if k was there before, and the other
\* warning buckets.
FrameOf(k) ==
    /\ \A e \in 1..Len(locals.shapes) :
          IF locals.shapes[e].key # k
          THEN locals'.shapes[e] = locals.shapes[e]
          ELSE /\ locals'.shapes[e].key = k
               /\ locals'.shapes[e].obj.shapeID = locals.shapes[e].obj.shapeID
               /\ locals'.shapes[e].obj.shapeLabel = locals.shapes[e].obj.shapeLabel
    /\ DOMAIN locals'.warnings \subseteq DOMAIN locals.warnings \cup {k}
    /\ \A j \in DOMAIN locals.warnings \ {k} :
          j \in DOMAIN locals'.warnings /\ locals'.warnings[j] = locals.warnings[j]

\* C16: a step that groups a row under key K leaves every other shape and
\* every other warning bucket as they were, keeps the shape-level fields of
\* K as its first row set them, and runs the hooks of no shape but K.
C16_OnlyOwnShape ==
    [][ RowGrouped =>
          /\ FrameOf(log'[Len(log')].sh_id)
          /\ log'[Len(log')].hooked = Lookup(locals'.shapes, log'[Len(log')].sh_id).oid ]_vars

(***************************************************************************)
(* C17.  Rows are left alone except for the write-back.                    *)
(***************************************************************************)
\* C17: after any prefix, and so at the return, every row is as it was
\* passed in, except that the first row with a propertyID, if it had no
\* non-empty shapeID, has a shapeID column written and nothing else changed.
C17_RowsImmutable ==
    \A i \in 1..Len(rows) :
        IF HasValidRow /\ i = FirstValid /\ ~HasExplicitKey(input[i])
        THEN /\ DOMAIN rows[i] = DOMAIN input[i] \cup {"shapeID"}
             /\ \A c \in DOMAIN input[i] \ {"shapeID"} : rows[i][c] = input[i][c]
        ELSE rows[i] = input[i]

\* A run that skipped a row, wrote the default key into the next one and
\* carried it forward to a third one, which stayed without a shapeID.
C17_Witness ==
    /\ pc = "returned"
    /\ Len(rows) = 3
    /\ ~IsValid(input[1])
    /\ IsValid(input[2]) /\ "shapeID" \notin DOMAIN input[2]
    /\ rows[2]["shapeID"] = "default"
    /\ IsValid(input[3]) /\ "shapeID" \notin DOMAIN rows[3]
    /\ log[3].sh_id = "default"

(***************************************************************************)
(* C18.  The extra-element lists are optional and without effect.          *)
(***************************************************************************)
\* The configuration with both extra-element lists present and empty.
WithEmptyExtras(c) ==
    ("extra_shape_elements" :> <<>>) @@ ("extra_statement_constraint_elements" :> <<>>) @@ c

\* C18: a call ends as the call on the same rows ends under the
\* configuration that differs only in having both extra-element lists
\* empty; so any two configurations that differ only in those lists, empty,
\* filled or absent, end with the same (shapes, warnings).
C18_ExtrasNoOp ==
    pc \in {"returned", "raised"} =>
        result = GetTapshapes(input, WithEmptyExtras(config_dict))

(***************************************************************************)
(* C19.  A row list without any row to group.                              *)
(***************************************************************************)
\* C19: a call on rows none of which has a propertyID (or on no rows) ends
\* by returning an empty shapes structure and an empty warnings mapping.
C19_NothingToGroup ==
    (pc \in {"returned", "raised"} /\ ~HasValidRow) =>
        /\ pc = "returned"
        /\ result = <<[shapes |-> <<>>], EmptyDict>>

(***************************************************************************)
(* C20.  The two runs of csvreader.                                        *)
(***************************************************************************)
\* C20: the second call, made on the rows as the first call left them, ends
\* with the pair the first call returned, so that the shapes csvreader takes
\* from the first call and the warnings it takes from the second belong to
\* the same grouping; the second call changes no row.
C20_SecondRunAgrees ==
    [][ (pc = "returned" /\ pc' = "csvreader_returned") =>
          /\ ReturnValue(locals') = result
          /\ result' = result
          /\ locals'.shapes = locals.shapes
          /\ rows' = rows ]_vars

\* csvreader has returned on rows whose first grouped row was written to,
\* with two shapes and a warning.
C20_Witness ==
    /\ pc = "csvreader_returned"
    /\ rows[FirstValid] # input[FirstValid]
    /\ Len(result[1].shapes) = 2
    /\ ":b2" \in DOMAIN result[2]

====
